---- MODULE Spec2Model ----
(***************************************************************************)
(* Model of the ESP32 IR controller firmware (src/src/main.cpp): the UDP   *)
(* binary protocol with last-id dedup and acknowledgements, the command    *)
(* dispatcher, the circular action queue and its executor, the RC5 toggle, *)
(* the siren engine, the status LED engine, the OTA service window and the *)
(* cooperative loop() that calls the six ticks in a fixed order.           *)
(*                                                                         *)
(* The firmware's globals are the variables below, with their source       *)
(* names.  The handlers are written as operators on a record g of those    *)
(* globals (Globals), so that a handler which calls another is the         *)
(* composition of the two operators; an action applies a handler to the    *)
(* current globals and commits the result.                                 *)
(***************************************************************************)
EXTENDS Integers, Sequences, FiniteSets, TLC

VARIABLES
    \* ---- environment --------------------------------------------------
    now,              \* millis()
    wifi,             \* WiFi.status() == WL_CONNECTED
    inbox,            \* datagrams waiting in the UDP socket, oldest first
    pc,               \* the call of loop() that runs next
    \* ---- OTA service window (main.cpp 89-91) --------------------------
    otaEnabled, otaInitialized, otaUntilMs,
    \* ---- status LED (main.cpp 108-111) --------------------------------
    ledInBurst, ledLevel, ledNextMs, ledTogglesLeft,
    \* ---- siren engine (main.cpp 152-159) ------------------------------
    sirenActive, sirenCount, sirenOnMs, sirenOffMs,
    sirenIndex, sirenPhaseOn, sirenNextMs,
    sirenPin,         \* level last written to SIREN_PIN by sirenWrite
    \* ---- RC5 encoder (main.cpp 216) -----------------------------------
    rc5_toggle_state,
    \* ---- action queue (main.cpp 283-285) ------------------------------
    q, qHead, qTail, qCount, delayUntilMs,
    \* ---- dedup record (main.cpp 329-331) ------------------------------
    lastId, lastIdValid, lastAckStatus,
    \* ---- Wi-Fi retry (main.cpp 530) -----------------------------------
    nextWifiRetryMs,
    \* ---- what the firmware emitted, in order --------------------------
    out,              \* acknowledgements sent and RC5 codes handed to irsend
    \* ---- history (not read by any handler) ----------------------------
    rx,               \* one record per framed datagram processUdp handled
    last,             \* the datagram handled last, with the globals before and after
    qReq,             \* per queue slot: the rx index of the request that filled it
    curReq,           \* the rx index of the request being served
    arrivals          \* number of datagram batches delivered so far

env  == <<now, wifi, inbox, pc>>
prog == <<otaEnabled, otaInitialized, otaUntilMs,
          ledInBurst, ledLevel, ledNextMs, ledTogglesLeft,
          sirenActive, sirenCount, sirenOnMs, sirenOffMs,
          sirenIndex, sirenPhaseOn, sirenNextMs, sirenPin,
          rc5_toggle_state, q, qHead, qTail, qCount, delayUntilMs,
          lastId, lastIdValid, lastAckStatus, nextWifiRetryMs,
          out, rx, last, qReq, curReq>>
vars == <<env, prog, arrivals>>

-----------------------------------------------------------------------------
(* Bounds of the model *)

\* datagram batches the environment delivers in one behaviour
MaxArrivals == 2
\* bursts (batches of up to QSIZE + 1 datagrams) delivered in one behaviour
MaxBursts == 1
\* millis() is not advanced past this value
MaxNow == 1200
MaxMacroNow == 800
MaxSirenNow == 700
MaxWindowNow == 360000
MaxWrapNow == 3000
MaxDrainNow == 500
MaxLedNow == 630

-----------------------------------------------------------------------------
(* Program constants *)

MAGIC == 165
VER == 1
CMD_ACK == 127
CMD_MODE_SWITCH == 64
CMD_RESET_SCOREBOARD == 65
CMD_SIREN == 96
CMD_OTA_MODE == 112
IR_GAP_MS_DEFAULT == 100
IR_GAP_MS_EXIT3_END == 500
OTA_WINDOW_MS == 180000
ACTIVITY_BLINK_ON_MS == 70
ACTIVITY_BLINK_OFF_MS == 70
ACTIVITY_BLINK_COUNT == 4
RC5_TOGGLE_MASK_12BIT == 2048
RC5_BITS == 12
RC5_ENTRIES == 27
IDX_EXIT == 2
IDX_8 == 23
IDX_9 == 24
QSIZE == 32
SIREN_SLOTS == 5
SIREN_MAX_COUNT == 3
HEADER_LEN == 6
BUF_SIZE == 128
WIFI_RETRY_INTERVAL_MS == 3000

\* widths of the C types.  millis() and the deadlines are unsigned long (32
\* bits): with now <= MaxNow no sum of the model reaches 2^32, so the deadlines
\* are plain sums.
U8  == 256
U16 == 65536

Min(a, b) == IF a <= b THEN a ELSE b

-----------------------------------------------------------------------------
(* The globals as one record *)

Globals ==
    [ otaEnabled |-> otaEnabled, otaInitialized |-> otaInitialized,
      otaUntilMs |-> otaUntilMs,
      ledInBurst |-> ledInBurst, ledLevel |-> ledLevel,
      ledNextMs |-> ledNextMs, ledTogglesLeft |-> ledTogglesLeft,
      sirenActive |-> sirenActive, sirenCount |-> sirenCount,
      sirenOnMs |-> sirenOnMs, sirenOffMs |-> sirenOffMs,
      sirenIndex |-> sirenIndex, sirenPhaseOn |-> sirenPhaseOn,
      sirenNextMs |-> sirenNextMs, sirenPin |-> sirenPin,
      rc5_toggle_state |-> rc5_toggle_state,
      q |-> q, qHead |-> qHead, qTail |-> qTail, qCount |-> qCount,
      delayUntilMs |-> delayUntilMs,
      lastId |-> lastId, lastIdValid |-> lastIdValid,
      lastAckStatus |-> lastAckStatus,
      nextWifiRetryMs |-> nextWifiRetryMs,
      out |-> out, rx |-> rx, last |-> last, qReq |-> qReq,
      curReq |-> curReq ]

Commit(g) ==
    /\ otaEnabled' = g.otaEnabled
    /\ otaInitialized' = g.otaInitialized
    /\ otaUntilMs' = g.otaUntilMs
    /\ ledInBurst' = g.ledInBurst
    /\ ledLevel' = g.ledLevel
    /\ ledNextMs' = g.ledNextMs
    /\ ledTogglesLeft' = g.ledTogglesLeft
    /\ sirenActive' = g.sirenActive
    /\ sirenCount' = g.sirenCount
    /\ sirenOnMs' = g.sirenOnMs
    /\ sirenOffMs' = g.sirenOffMs
    /\ sirenIndex' = g.sirenIndex
    /\ sirenPhaseOn' = g.sirenPhaseOn
    /\ sirenNextMs' = g.sirenNextMs
    /\ sirenPin' = g.sirenPin
    /\ rc5_toggle_state' = g.rc5_toggle_state
    /\ q' = g.q
    /\ qHead' = g.qHead
    /\ qTail' = g.qTail
    /\ qCount' = g.qCount
    /\ delayUntilMs' = g.delayUntilMs
    /\ lastId' = g.lastId
    /\ lastIdValid' = g.lastIdValid
    /\ lastAckStatus' = g.lastAckStatus
    /\ nextWifiRetryMs' = g.nextWifiRetryMs
    /\ out' = g.out
    /\ rx' = g.rx
    /\ last' = g.last
    /\ qReq' = g.qReq
    /\ curReq' = g.curReq

-----------------------------------------------------------------------------
(* Status LED engine, main.cpp 113-147 *)

\* statusLedSetBase: the LED mirrors the link
statusLedSetBase(g) == [g EXCEPT !.ledLevel = wifi]

\* statusLedActivityBurst: 8 toggles, starting dark
statusLedActivityBurst(g) ==
    [g EXCEPT !.ledInBurst = TRUE,
              !.ledTogglesLeft = (ACTIVITY_BLINK_COUNT * 2) % U8,
              !.ledLevel = FALSE,
              !.ledNextMs = now + ACTIVITY_BLINK_OFF_MS]

\* statusLedTick toggling without waiting for the deadline
statusLedTickEarly(g) ==
    IF ~g.ledInBurst THEN statusLedSetBase(g)
    ELSE LET lvl  == ~g.ledLevel
             left == IF g.ledTogglesLeft > 0 THEN g.ledTogglesLeft - 1
                     ELSE g.ledTogglesLeft
             g1   == [g EXCEPT !.ledLevel = lvl, !.ledTogglesLeft = left]
         IN IF left = 0
            THEN statusLedSetBase([g1 EXCEPT !.ledInBurst = FALSE])
            ELSE [g1 EXCEPT !.ledNextMs =
                     now + (IF lvl THEN ACTIVITY_BLINK_ON_MS
                                    ELSE ACTIVITY_BLINK_OFF_MS)]

statusLedTick(g) ==
    IF ~g.ledInBurst THEN statusLedSetBase(g)
    ELSE IF now < g.ledNextMs THEN g
    ELSE LET lvl  == ~g.ledLevel
             left == IF g.ledTogglesLeft > 0 THEN g.ledTogglesLeft - 1
                     ELSE g.ledTogglesLeft
             g1   == [g EXCEPT !.ledLevel = lvl, !.ledTogglesLeft = left]
         IN IF left = 0
            THEN statusLedSetBase([g1 EXCEPT !.ledInBurst = FALSE])
            ELSE [g1 EXCEPT !.ledNextMs =
                     now + (IF lvl THEN ACTIVITY_BLINK_ON_MS
                                    ELSE ACTIVITY_BLINK_OFF_MS)]

-----------------------------------------------------------------------------
(* Siren engine, main.cpp 161-210 *)

\* sirenWrite with SIREN_ACTIVE_HIGH = true
sirenWrite(g, on) == [g EXCEPT !.sirenPin = on]

sirenStop(g) ==
    sirenWrite([g EXCEPT !.sirenActive = FALSE, !.sirenCount = 0,
                         !.sirenIndex = 0, !.sirenPhaseOn = FALSE,
                         !.sirenNextMs = 0], FALSE)

\* onArr, offArr: functions on 0..SIREN_SLOTS-1
sirenStart(g, count, onArr, offArr) ==
    LET onMs  == [i \in 0..(SIREN_SLOTS - 1) |-> IF i < count THEN onArr[i] ELSE 0]
        offMs == [i \in 0..(SIREN_SLOTS - 1) |-> IF i < count THEN offArr[i] ELSE 0]
        g1 == [g EXCEPT !.sirenCount = count, !.sirenOnMs = onMs,
                        !.sirenOffMs = offMs, !.sirenIndex = 0,
                        !.sirenPhaseOn = TRUE, !.sirenActive = TRUE]
    IN [sirenWrite(g1, TRUE) EXCEPT !.sirenNextMs = now + onMs[0]]

\* sirenTick moving on without waiting for the deadline
sirenTickEarly(g) ==
    IF ~g.sirenActive THEN g
    ELSE IF g.sirenPhaseOn
         THEN [sirenWrite(g, FALSE) EXCEPT
                  !.sirenPhaseOn = FALSE,
                  !.sirenNextMs = now + g.sirenOffMs[g.sirenIndex]]
    ELSE IF g.sirenIndex + 1 >= g.sirenCount THEN sirenStop(g)
    ELSE LET i == g.sirenIndex + 1
         IN [sirenWrite(g, TRUE) EXCEPT
                !.sirenIndex = i, !.sirenPhaseOn = TRUE,
                !.sirenNextMs = now + g.sirenOnMs[i]]

sirenTick(g) ==
    IF ~g.sirenActive THEN g
    ELSE IF now < g.sirenNextMs THEN g
    ELSE IF g.sirenPhaseOn
         THEN [sirenWrite(g, FALSE) EXCEPT
                  !.sirenPhaseOn = FALSE,
                  !.sirenNextMs = now + g.sirenOffMs[g.sirenIndex]]
    ELSE IF g.sirenIndex + 1 >= g.sirenCount THEN sirenStop(g)
    ELSE LET i == g.sirenIndex + 1
         IN [sirenWrite(g, TRUE) EXCEPT
                !.sirenIndex = i, !.sirenPhaseOn = TRUE,
                !.sirenNextMs = now + g.sirenOnMs[i]]

-----------------------------------------------------------------------------
(* RC5 encoder, main.cpp 216-274 *)

\* the 12-bit codes the RC5_TABLE initialisers are written with, rows 0..26
RC5_BASE ==
    [i \in 0..(RC5_ENTRIES - 1) |->
        << 2250, 203, 2060, 47, 2104, 33, 2080, 34, 230, 2061, 17, 2064, 43,
           2048, 2049, 2, 2051, 46, 2052, 5, 2054, 44, 2055, 8, 2057, 41,
           2063 >>[i + 1]]

\* x & ~RC5_TOGGLE_MASK_12BIT and x | RC5_TOGGLE_MASK_12BIT, for x < 4096
MaskOff(x) == x - ((x \div RC5_TOGGLE_MASK_12BIT) % 2) * RC5_TOGGLE_MASK_12BIT
MaskOn(x)  == MaskOff(x) + RC5_TOGGLE_MASK_12BIT

RC5_TABLE ==
    [i \in 0..(RC5_ENTRIES - 1) |->
        [bits |-> RC5_BITS, v_t0 |-> MaskOff(RC5_BASE[i]), v_t1 |-> MaskOn(RC5_BASE[i])]]

readU16LE(p0, p1) == (p0 + p1 * U8) % U16
writeU16LE(v) == << v % U8, (v \div U8) % U8 >>

\* irsend.sendRC5(v, bits, 0): the code handed to the IR transmitter
irSend(g, idx, v, bits) ==
    [g EXCEPT !.out = Append(@, [kind |-> "ir", req |-> g.curReq, at |-> now,
                                 data |-> <<idx, v, bits>>])]

\* sendRc5Press picking the code variant before it flips the toggle
sendRc5PressOldToggle(g, idx) ==
    LET t  == (g.rc5_toggle_state + 1) % 2
        v  == IF g.rc5_toggle_state = 0 THEN RC5_TABLE[idx].v_t0
              ELSE RC5_TABLE[idx].v_t1
        g1 == [g EXCEPT !.rc5_toggle_state = t]
    IN statusLedActivityBurst(irSend(g1, idx, v, RC5_TABLE[idx].bits))

sendRc5Press(g, idx) ==
    LET t  == (g.rc5_toggle_state + 1) % 2      \* rc5_toggle_state ^= 1
        v  == IF t = 0 THEN RC5_TABLE[idx].v_t0 ELSE RC5_TABLE[idx].v_t1
        g1 == [g EXCEPT !.rc5_toggle_state = t]
    IN statusLedActivityBurst(irSend(g1, idx, v, RC5_TABLE[idx].bits))

-----------------------------------------------------------------------------
(* Action queue, main.cpp 279-324 *)

Press(idx) == [type |-> "Press", arg |-> idx]
Delay(ms)  == [type |-> "Delay", arg |-> ms]
\* a slot of the zero-initialised array q that was never written
NoAction   == [type |-> "None", arg |-> 0]

\* qPush refusing only past QSIZE entries
qPushOffByOne(g, a) ==
    IF g.qCount > QSIZE THEN [ok |-> FALSE, g |-> g]
    ELSE [ok |-> TRUE,
          g  |-> [g EXCEPT !.q[g.qTail] = a,
                           !.qTail = (g.qTail + 1) % QSIZE,
                           !.qCount = g.qCount + 1]]

\* qPush: [ok, g]
qPush(g, a) ==
    IF g.qCount >= QSIZE THEN [ok |-> FALSE, g |-> g]
    ELSE [ok |-> TRUE,
          g  |-> [g EXCEPT !.q[g.qTail] = a,
                           !.qTail = (g.qTail + 1) % QSIZE,
                           !.qCount = g.qCount + 1]]

\* qPop taking the newest action
qPopNewest(g) ==
    IF g.qCount = 0 THEN [ok |-> FALSE, a |-> NoAction, g |-> g]
    ELSE [ok |-> TRUE, a |-> g.q[(g.qTail + QSIZE - 1) % QSIZE],
          g  |-> [g EXCEPT !.qTail = (g.qTail + QSIZE - 1) % QSIZE,
                           !.qCount = g.qCount - 1]]

\* qPop: [ok, a, g]
qPop(g) ==
    IF g.qCount = 0 THEN [ok |-> FALSE, a |-> NoAction, g |-> g]
    ELSE [ok |-> TRUE, a |-> g.q[g.qHead],
          g  |-> [g EXCEPT !.qHead = (g.qHead + 1) % QSIZE,
                           !.qCount = g.qCount - 1]]

\* queuePress, queueDelay: the result of qPush is dropped
queuePress(g, idx) == qPush(g, Press(idx)).g
queueDelay(g, ms)  == qPush(g, Delay(ms)).g

\* queueMacroModeSwitch closing with the default gap
queueMacroModeSwitchShortGap(g) ==
    LET g1 == queuePress(g, IDX_EXIT)
        g2 == queueDelay(g1, IR_GAP_MS_DEFAULT)
        g3 == queuePress(g2, IDX_EXIT)
        g4 == queueDelay(g3, IR_GAP_MS_DEFAULT)
        g5 == queuePress(g4, IDX_EXIT)
    IN queueDelay(g5, IR_GAP_MS_DEFAULT)

queueMacroModeSwitch(g) ==
    LET g1 == queuePress(g, IDX_EXIT)
        g2 == queueDelay(g1, IR_GAP_MS_DEFAULT)
        g3 == queuePress(g2, IDX_EXIT)
        g4 == queueDelay(g3, IR_GAP_MS_DEFAULT)
        g5 == queuePress(g4, IDX_EXIT)
    IN queueDelay(g5, IR_GAP_MS_EXIT3_END)

queueMacroResetScoreboard(g) ==
    LET g1 == queuePress(g, IDX_9)
        g2 == queueDelay(g1, IR_GAP_MS_DEFAULT)
        g3 == queuePress(g2, IDX_8)
        g4 == queueDelay(g3, IR_GAP_MS_DEFAULT)
        g5 == queuePress(g4, IDX_8)
        g6 == queueDelay(g5, IR_GAP_MS_DEFAULT)
    IN queuePress(g6, IDX_8)

-----------------------------------------------------------------------------
(* Acknowledgement, main.cpp 333-346 *)

AckFrame(id, status) == <<MAGIC, VER, CMD_ACK>> \o writeU16LE(id) \o <<status, 0>>

sendAck(g, id, status) ==
    [g EXCEPT !.out = Append(@, [kind |-> "ack", req |-> g.curReq,
                                 data |-> AckFrame(id, status)])]

-----------------------------------------------------------------------------
(* OTA service window, main.cpp 351-387 *)

otaInitOnce(g) == IF g.otaInitialized THEN g ELSE [g EXCEPT !.otaInitialized = TRUE]

\* otaEnterOrExtendWindow arming the deadline on entry only
otaEnterNoExtend(g) ==
    statusLedActivityBurst(
        [otaInitOnce(g) EXCEPT !.otaEnabled = TRUE,
                               !.otaUntilMs = IF g.otaEnabled THEN g.otaUntilMs
                                              ELSE now + OTA_WINDOW_MS])

otaEnterOrExtendWindow(g) ==
    statusLedActivityBurst(
        [otaInitOnce(g) EXCEPT !.otaEnabled = TRUE,
                               !.otaUntilMs = now + OTA_WINDOW_MS])

otaTick(g) ==
    IF ~g.otaEnabled THEN g
    ELSE IF ~wifi THEN g
    ELSE IF now >= g.otaUntilMs THEN [g EXCEPT !.otaEnabled = FALSE]
    ELSE g      \* ArduinoOTA.handle()

-----------------------------------------------------------------------------
(* Command handler, main.cpp 392-448.  payload is the sequence of bytes    *)
(* after the header (payload[0] of the source is payload[1] here).         *)
(* The result is [ok, g].                                                  *)

\* enqueueSiren letting a count of 0 through
enqueueSirenZeroCount(g, payload, payloadLen) ==
    IF payloadLen < 1 THEN [ok |-> FALSE, g |-> g]
    ELSE LET count == payload[1]
             need  == (1 + count * 4) % U8
         IN IF count > SIREN_MAX_COUNT THEN [ok |-> FALSE, g |-> g]
            ELSE IF payloadLen < need THEN [ok |-> FALSE, g |-> g]
            ELSE LET onArr  == [i \in 0..(SIREN_SLOTS - 1) |->
                                  IF i < count
                                  THEN readU16LE(payload[2 + 4 * i], payload[3 + 4 * i])
                                  ELSE 0]
                     offArr == [i \in 0..(SIREN_SLOTS - 1) |->
                                  IF i < count
                                  THEN readU16LE(payload[4 + 4 * i], payload[5 + 4 * i])
                                  ELSE 0]
                 IN [ok |-> TRUE, g |-> sirenStart(g, count, onArr, offArr)]

enqueueSiren(g, payload, payloadLen) ==
    IF payloadLen < 1 THEN [ok |-> FALSE, g |-> g]
    ELSE LET count == payload[1]
             need  == (1 + count * 4) % U8
         IN IF count < 1 \/ count > SIREN_MAX_COUNT THEN [ok |-> FALSE, g |-> g]
            ELSE IF payloadLen < need THEN [ok |-> FALSE, g |-> g]
            ELSE LET onArr  == [i \in 0..(SIREN_SLOTS - 1) |->
                                  IF i < count
                                  THEN readU16LE(payload[2 + 4 * i], payload[3 + 4 * i])
                                  ELSE 0]
                     offArr == [i \in 0..(SIREN_SLOTS - 1) |->
                                  IF i < count
                                  THEN readU16LE(payload[4 + 4 * i], payload[5 + 4 * i])
                                  ELSE 0]
                 IN [ok |-> TRUE, g |-> sirenStart(g, count, onArr, offArr)]

\* CMD_OTA_MODE, in and out of the service window
enqueueOta(g, payloadLen) ==
    IF payloadLen # 0 THEN [ok |-> FALSE, g |-> g]
    ELSE [ok |-> TRUE, g |-> otaEnterOrExtendWindow(g)]

\* enqueuePress transmitting the press itself instead of queueing it
enqueuePressNow(g, cmd) ==
    LET idx == (cmd - 1) % U8
    IN IF idx >= RC5_ENTRIES THEN [ok |-> FALSE, g |-> g]
       ELSE [ok |-> TRUE, g |-> sendRc5Press(g, idx)]

\* 0x01..0x1B: one press of index cmd-1
enqueuePress(g, cmd) ==
    LET idx == (cmd - 1) % U8
    IN IF idx >= RC5_ENTRIES THEN [ok |-> FALSE, g |-> g]
       ELSE qPush(g, Press(idx))

enqueueModeSwitch(g) ==
    IF g.qCount > QSIZE - 6 THEN [ok |-> FALSE, g |-> g]
    ELSE [ok |-> TRUE, g |-> queueMacroModeSwitch(g)]

enqueueReset(g) ==
    IF g.qCount > QSIZE - 6 THEN [ok |-> FALSE, g |-> g]
    ELSE [ok |-> TRUE, g |-> queueMacroResetScoreboard(g)]

\* enqueueCommand without the check of the service window
enqueueCommandNoGate(g, cmd, payload, payloadLen) ==
    IF cmd = CMD_OTA_MODE THEN enqueueOta(g, payloadLen)
    ELSE IF cmd >= 1 /\ cmd <= 27 THEN enqueuePress(g, cmd)
    ELSE IF cmd = CMD_MODE_SWITCH THEN enqueueModeSwitch(g)
    ELSE IF cmd = CMD_RESET_SCOREBOARD THEN enqueueReset(g)
    ELSE IF cmd = CMD_SIREN THEN enqueueSiren(g, payload, payloadLen)
    ELSE [ok |-> FALSE, g |-> g]

enqueueCommand(g, cmd, payload, payloadLen) ==
    IF g.otaEnabled
    THEN IF cmd = CMD_OTA_MODE THEN enqueueOta(g, payloadLen)
         ELSE [ok |-> FALSE, g |-> g]
    ELSE IF cmd = CMD_OTA_MODE THEN enqueueOta(g, payloadLen)
    ELSE IF cmd >= 1 /\ cmd <= 27 THEN enqueuePress(g, cmd)
    ELSE IF cmd = CMD_MODE_SWITCH THEN enqueueModeSwitch(g)
    ELSE IF cmd = CMD_RESET_SCOREBOARD THEN enqueueReset(g)
    ELSE IF cmd = CMD_SIREN THEN enqueueSiren(g, payload, payloadLen)
    ELSE [ok |-> FALSE, g |-> g]

-----------------------------------------------------------------------------
(* UDP intake, main.cpp 453-500 *)

\* udp.read(buf, sizeof(buf)): at most BUF_SIZE bytes of the datagram
udpRead(d) == SubSeq(d, 1, Min(Len(d), BUF_SIZE))

\* history: the globals the dispatcher, the executor and the engines work on
ProgFields ==
    { "otaEnabled", "otaInitialized", "otaUntilMs",
      "sirenActive", "sirenCount", "sirenOnMs", "sirenOffMs",
      "sirenIndex", "sirenPhaseOn", "sirenNextMs", "sirenPin",
      "rc5_toggle_state", "q", "qHead", "qTail", "qCount", "delayUntilMs",
      "lastId", "lastIdValid", "lastAckStatus" }
Snap(g) == [f \in ProgFields |-> g[f]]

\* history: the framed datagram just handled: what the parser read from it
\* and the branch it took
noteRx(g, id, cmd, plen, lenOk, dup, status) ==
    [g EXCEPT !.rx = Append(@, [id |-> id, cmd |-> cmd, plen |-> plen,
                                lenOk |-> lenOk, dup |-> dup, status |-> status])]

\* history: the slots filled since qTail was t0 and qCount was c0 belong to
\* the request being served
noteQueued(g, t0, c0) ==
    [g EXCEPT !.qReq = [i \in 0..(QSIZE - 1) |->
                          IF \E k \in 0..(g.qCount - c0 - 1) : i = (t0 + k) % QSIZE
                          THEN g.curReq ELSE g.qReq[i]]]

\* rejectLength leaving the dedup record as it was
rejectLengthNoSave(g, id) == sendAck(g, id, 0)

\* the frame is rejected for its length, main.cpp 472-477
rejectLength(g, id) ==
    sendAck([g EXCEPT !.lastId = id, !.lastIdValid = TRUE, !.lastAckStatus = 0],
            id, 0)

\* replayAck answering with status 1 whatever was stored
replayAckAccepted(g, id) == sendAck(g, id, 1)

\* the frame repeats the last id, main.cpp 480-483
replayAck(g, id) == sendAck(g, id, g.lastAckStatus)

\* dispatchFrame saving the status but not the id
dispatchFrameNoSave(g, cmd, id, payload, plen) ==
    LET r  == enqueueCommand(g, cmd, payload, plen)
        g1 == noteQueued(r.g, g.qTail, g.qCount)
        g2 == [g1 EXCEPT !.lastAckStatus = IF r.ok THEN 1 ELSE 0]
        g3 == IF r.ok THEN statusLedActivityBurst(g2) ELSE g2
    IN sendAck(g3, id, g3.lastAckStatus)

\* the frame is new, main.cpp 485-498
dispatchFrame(g, cmd, id, payload, plen) ==
    LET r  == enqueueCommand(g, cmd, payload, plen)
        g1 == noteQueued(r.g, g.qTail, g.qCount)
        g2 == [g1 EXCEPT !.lastId = id, !.lastIdValid = TRUE,
                         !.lastAckStatus = IF r.ok THEN 1 ELSE 0]
        g3 == IF r.ok THEN statusLedActivityBurst(g2) ELSE g2
    IN sendAck(g3, id, g3.lastAckStatus)

\* processDatagram without the check of the version byte
processDatagramAnyVersion(g, d) ==
    LET buf == udpRead(d)
        len == Len(buf)
    IN IF len < HEADER_LEN THEN g
       ELSE IF buf[1] # MAGIC THEN g
       ELSE LET cmd  == buf[3]
                id   == readU16LE(buf[4], buf[5])
                plen == buf[6]
                g0   == [g EXCEPT !.curReq = Len(g.rx) + 1]
            IN IF HEADER_LEN + plen # len
               THEN noteRx(rejectLength(g0, id), id, cmd, plen, FALSE, FALSE, 0)
               ELSE IF g.lastIdValid /\ id = g.lastId
               THEN noteRx(replayAck(g0, id), id, cmd, plen, TRUE, TRUE,
                           g.lastAckStatus)
               ELSE LET payload == SubSeq(buf, HEADER_LEN + 1, len)
                        g1 == dispatchFrame(g0, cmd, id, payload, plen)
                    IN noteRx(g1, id, cmd, plen, TRUE, FALSE, g1.lastAckStatus)

\* one iteration of the while loop: a datagram of at least one byte
processDatagram(g, d) ==
    LET buf == udpRead(d)
        len == Len(buf)
    IN IF len < HEADER_LEN THEN g
       ELSE IF buf[1] # MAGIC THEN g
       ELSE IF buf[2] # VER THEN g
       ELSE LET cmd  == buf[3]
                id   == readU16LE(buf[4], buf[5])
                plen == buf[6]
                g0   == [g EXCEPT !.curReq = Len(g.rx) + 1]
            IN IF HEADER_LEN + plen # len
               THEN noteRx(rejectLength(g0, id), id, cmd, plen, FALSE, FALSE, 0)
               ELSE IF g.lastIdValid /\ id = g.lastId
               THEN noteRx(replayAck(g0, id), id, cmd, plen, TRUE, TRUE,
                           g.lastAckStatus)
               ELSE LET payload == SubSeq(buf, HEADER_LEN + 1, len)
                        g1 == dispatchFrame(g0, cmd, id, payload, plen)
                    IN noteRx(g1, id, cmd, plen, TRUE, FALSE, g1.lastAckStatus)

\* history: the datagram the loop body just handled, the globals before and
\* after it, and what was emitted for it
handleDatagram(g, d) ==
    LET g1 == processDatagram(g, d)
    IN [g1 EXCEPT !.last = [dgram |-> d, at |-> now,
                            pre |-> Snap(g), post |-> Snap(g1),
                            framed |-> Len(g1.rx) > Len(g.rx),
                            sent |-> SubSeq(g1.out, Len(g.out) + 1, Len(g1.out))]]

-----------------------------------------------------------------------------
(* Action executor, main.cpp 505-525 *)

\* actionTick standing still while the service window is open
actionTickGateClosed(g) ==
    IF g.otaEnabled THEN g
    ELSE IF g.delayUntilMs # 0 /\ now < g.delayUntilMs THEN g
    ELSE LET g0 == [g EXCEPT !.delayUntilMs = 0]
         IN IF g0.qCount = 0 THEN g0
            ELSE LET r  == qPop(g0)
                     g1 == [r.g EXCEPT !.curReq = g0.qReq[g0.qHead]]
                 IN IF ~r.ok THEN g0
                    ELSE IF r.a.type = "Delay"
                    THEN [g1 EXCEPT !.delayUntilMs = now + r.a.arg]
                    ELSE IF r.a.type = "Press"
                    THEN LET idx == r.a.arg % U8
                         IN IF idx < RC5_ENTRIES THEN sendRc5Press(g1, idx) ELSE g1
                    ELSE g1

\* actionTick going on while a delay is pending
actionTickNoWait(g) ==
    LET g0 == [g EXCEPT !.delayUntilMs = 0]
    IN IF g0.qCount = 0 THEN g0
       ELSE LET r  == qPop(g0)
                g1 == [r.g EXCEPT !.curReq = g0.qReq[g0.qHead]]
            IN IF ~r.ok THEN g0
               ELSE IF r.a.type = "Delay"
               THEN [g1 EXCEPT !.delayUntilMs = now + r.a.arg]
               ELSE IF r.a.type = "Press"
               THEN LET idx == r.a.arg % U8
                    IN IF idx < RC5_ENTRIES THEN sendRc5Press(g1, idx) ELSE g1
               ELSE g1

actionTick(g) ==
    IF g.delayUntilMs # 0 /\ now < g.delayUntilMs THEN g
    ELSE LET g0 == [g EXCEPT !.delayUntilMs = 0]
         IN IF g0.qCount = 0 THEN g0
            ELSE LET r  == qPop(g0)
                     g1 == [r.g EXCEPT !.curReq = g0.qReq[g0.qHead]]
                 IN IF ~r.ok THEN g0
                    ELSE IF r.a.type = "Delay"
                    THEN [g1 EXCEPT !.delayUntilMs = now + r.a.arg]
                    ELSE IF r.a.type = "Press"
                    THEN LET idx == r.a.arg % U8
                         IN IF idx < RC5_ENTRIES THEN sendRc5Press(g1, idx) ELSE g1
                    ELSE g1

-----------------------------------------------------------------------------
(* Wi-Fi reconnect tick, main.cpp 533-540 *)

wifiTick(g) ==
    IF wifi THEN g
    ELSE IF now < g.nextWifiRetryMs THEN g
    ELSE [g EXCEPT !.nextWifiRetryMs = now + WIFI_RETRY_INTERVAL_MS]

-----------------------------------------------------------------------------
(* setup() and loop(), main.cpp 545-587 *)

Init ==
    /\ now = 0 /\ wifi = FALSE /\ inbox = <<>> /\ pc = "statusLedTick"
    /\ otaEnabled = FALSE /\ otaInitialized = FALSE /\ otaUntilMs = 0
    /\ ledInBurst = FALSE /\ ledLevel = FALSE /\ ledNextMs = 0
    /\ ledTogglesLeft = 0
    /\ sirenActive = FALSE /\ sirenCount = 0
    /\ sirenOnMs = [i \in 0..(SIREN_SLOTS - 1) |-> 0]
    /\ sirenOffMs = [i \in 0..(SIREN_SLOTS - 1) |-> 0]
    /\ sirenIndex = 0 /\ sirenPhaseOn = FALSE /\ sirenNextMs = 0
    /\ sirenPin = FALSE
    /\ rc5_toggle_state = 0
    /\ q = [i \in 0..(QSIZE - 1) |-> NoAction]
    /\ qHead = 0 /\ qTail = 0 /\ qCount = 0 /\ delayUntilMs = 0
    /\ lastId = 0 /\ lastIdValid = FALSE /\ lastAckStatus = 0
    /\ nextWifiRetryMs = 0
    /\ out = <<>> /\ rx = <<>> /\ last = <<>>
    /\ qReq = [i \in 0..(QSIZE - 1) |-> 0]
    /\ curReq = 0
    /\ arrivals = 0

\* loop() calls the ticks in this order
Step(at, next, g) ==
    /\ pc = at
    /\ pc' = next
    /\ Commit(g)
    /\ UNCHANGED <<now, wifi, inbox, arrivals>>

StatusLedTick == Step("statusLedTick", "wifiTick", statusLedTick(Globals))

WifiTick == Step("wifiTick", "processUdp", wifiTick(Globals))

\* one evaluation of while ((packetSize = udp.parsePacket()) > 0) and, when
\* a datagram of at least one byte is waiting, one run of the loop body
WhileParsePacket ==
    IF inbox = <<>>
    THEN pc' = "otaTick" /\ UNCHANGED <<inbox, prog>>
    ELSE IF Len(Head(inbox)) = 0
    THEN pc' = "otaTick" /\ inbox' = Tail(inbox) /\ UNCHANGED prog
    ELSE /\ pc' = "parsePacket"
         /\ inbox' = Tail(inbox)
         /\ Commit(handleDatagram(Globals, Head(inbox)))

\* if (wifiConnected()) processUdp();
ProcessUdp ==
    /\ pc = "processUdp"
    /\ IF wifi THEN WhileParsePacket
       ELSE pc' = "otaTick" /\ UNCHANGED <<inbox, prog>>
    /\ UNCHANGED <<now, wifi, arrivals>>

\* the later evaluations of the while condition of processUdp
ParsePacket ==
    /\ pc = "parsePacket"
    /\ WhileParsePacket
    /\ UNCHANGED <<now, wifi, arrivals>>

OtaTick == Step("otaTick", "actionTick", otaTick(Globals))

ActionTick == Step("actionTick", "sirenTick", actionTick(Globals))

SirenTick == Step("sirenTick", "statusLedTick", sirenTick(Globals))

Loop ==
    \/ StatusLedTick \/ WifiTick \/ ProcessUdp \/ ParsePacket
    \/ OtaTick \/ ActionTick \/ SirenTick

-----------------------------------------------------------------------------
(* The environment: time, the link, the datagrams *)

\* millis() advances by one of the steps
Advance(steps) ==
    /\ \E d \in steps : now + d <= MaxNow /\ now' = now + d
    /\ UNCHANGED <<wifi, inbox, pc, prog, arrivals>>

\* the link comes up or goes down
LinkChange ==
    /\ wifi' = ~wifi
    /\ UNCHANGED <<now, inbox, pc, prog, arrivals>>

\* a batch of datagrams reaches the socket while the link is up
Arrive(batches, max) ==
    /\ wifi
    /\ arrivals < max
    /\ \E b \in batches : inbox' = inbox \o b
    /\ arrivals' = arrivals + 1
    /\ UNCHANGED <<now, wifi, pc, prog>>

-----------------------------------------------------------------------------
(* Datagrams *)

\* a frame as the protocol lays it out: header, then the payload
Frame(cmd, id, payload) ==
    <<MAGIC, VER, cmd>> \o writeU16LE(id) \o <<Len(payload)>> \o payload

\* a frame whose header declares plen payload bytes and that carries `payload`
FrameDeclaring(cmd, id, plen, payload) ==
    <<MAGIC, VER, cmd>> \o writeU16LE(id) \o <<plen>> \o payload

\* request ids: 0 is the boot value of lastId, 513 uses both id bytes
RequestIds == <<0, 513, 42>>
IdA == RequestIds[1]
IdB == RequestIds[2]
IdC == RequestIds[3]

NextOf(batches, max, steps) ==
    Loop \/ Advance(steps) \/ LinkChange \/ Arrive(batches, max)

\* a burst is sent to a firmware that has nothing waiting and nothing queued
ArriveBurst(batches, max) ==
    /\ inbox = <<>>
    /\ qCount = 0
    /\ Arrive(batches, max)

NextBurst(batches, max, steps) ==
    Loop \/ Advance(steps) \/ LinkChange \/ ArriveBurst(batches, max)

-----------------------------------------------------------------------------
(* Spec: single presses, a macro and frames of the wrong length, one        *)
(* datagram at a time                                                       *)

ProtoBatches ==
    { <<Frame(5, IdA, <<>>)>>,                           \* press of index 4
      <<Frame(CMD_MODE_SWITCH, IdB, <<>>)>>,             \* macro
      <<Frame(5, IdA, <<>>) \o <<0>>>>,                  \* one byte too long
      <<FrameDeclaring(2, IdB, 2, <<>>)>> }              \* two bytes too short

\* millis() steps past every delay of the queue and of the LED
ProtoSteps == {600}

Next == NextOf(ProtoBatches, MaxArrivals, ProtoSteps)

Spec == Init /\ [][Next]_vars

-----------------------------------------------------------------------------
(* SpecGate: the OTA service window.  Mode entry with both ids and with a   *)
(* payload, and a press, a macro and a siren to send while the window is    *)
(* open                                                                     *)

\* count 1, on 100 ms, off 100 ms
SirenShort == <<1, 100, 0, 100, 0>>

GateBatches ==
    { <<Frame(CMD_OTA_MODE, IdA, <<>>)>>,
      <<Frame(CMD_OTA_MODE, IdB, <<>>)>>,
      <<Frame(CMD_OTA_MODE, IdC, <<7>>)>>,
      <<Frame(5, IdB, <<>>)>>,
      <<Frame(CMD_MODE_SWITCH, IdC, <<>>)>>,
      <<Frame(CMD_SIREN, IdA, SirenShort)>> }

GateSteps == {600}

NextGate == NextOf(GateBatches, MaxArrivals, GateSteps)

SpecGate == Init /\ [][NextGate]_vars

-----------------------------------------------------------------------------
(* SpecFill: a macro sent behind a burst of single presses that are all      *)
(* waiting in the socket, so that it is dispatched at every queue occupancy *)

\* n presses of index 1, the ids alternating so that none is a repeat
PressBurst(n) == [k \in 1..n |-> Frame(2, IF k % 2 = 1 THEN IdA ELSE IdB, <<>>)]

FillBatches ==
    { PressBurst(n) \o <<Frame(c, IdC, <<>>)>> :
          n \in 0..QSIZE, c \in {CMD_MODE_SWITCH, CMD_RESET_SCOREBOARD} }

FillSteps == {1200}

NextFill == NextBurst(FillBatches, MaxBursts, FillSteps)

SpecFill == Init /\ [][NextFill]_vars

-----------------------------------------------------------------------------
(* SpecPress: single presses at the ends of the code range, codes outside   *)
(* it, and a press sent behind a burst that leaves one slot or none         *)

PressBatches ==
    { <<Frame(c, IdC, <<>>)>> : c \in {0, 1, 27, 28} }
    \cup { PressBurst(n) \o <<Frame(5, IdC, <<>>)>> : n \in {QSIZE - 1, QSIZE} }

PressSteps == {1200}

NextPress == NextBurst(PressBatches, MaxBursts, PressSteps)

SpecPress == Init /\ [][NextPress]_vars

-----------------------------------------------------------------------------
(* SpecMacro: the mode-switch macro and a single press that may follow or   *)
(* precede it, with millis() fine enough to land inside every gap           *)

MacroBatches ==
    { <<Frame(CMD_MODE_SWITCH, IdA, <<>>)>>,
      <<Frame(CMD_MODE_SWITCH, IdA, <<>>), Frame(5, IdB, <<>>)>>,
      <<Frame(5, IdB, <<>>), Frame(CMD_MODE_SWITCH, IdA, <<>>)>> }

MacroSteps == {100}

\* the link comes up and stays up
LinkUp ==
    /\ ~wifi
    /\ wifi' = TRUE
    /\ UNCHANGED <<now, inbox, pc, prog, arrivals>>

\* millis() read between two passes of loop()
AdvanceBetweenPasses(steps, horizon) ==
    /\ pc = "statusLedTick"
    /\ now < horizon
    /\ Advance(steps)

NextMacro ==
    \/ Loop
    \/ AdvanceBetweenPasses(MacroSteps, MaxMacroNow)
    \/ LinkUp
    \/ ArriveBurst(MacroBatches, MaxBursts)

SpecMacro == Init /\ [][NextMacro]_vars

-----------------------------------------------------------------------------
(* SpecSiren: pulse trains of one and of two phases, one of them with a     *)
(* duration above 255 ms, and siren payloads the dispatcher refuses         *)

\* count 2, on 200 and 300 ms, off 100 and 100 ms
SirenTwoPhases == <<2, 200, 0, 100, 0, 44, 1, 100, 0>>
\* count 1, on 100 ms, off 100 ms
SirenOnePhase == <<1, 100, 0, 100, 0>>

\* payloads the dispatcher refuses: count 0, count 4, one pair missing
SirenRefused ==
    << Frame(CMD_SIREN, IdC, <<0>>),
       Frame(CMD_SIREN, IdA, <<4>> \o SirenTwoPhases),
       Frame(CMD_SIREN, IdC, <<2, 200, 0, 100, 0>>) >>

SirenBatches ==
    { <<Frame(CMD_SIREN, IdA, SirenTwoPhases)>>,
      <<Frame(CMD_SIREN, IdB, SirenOnePhase)>>,
      SirenRefused }

SirenSteps == {100}

NextSiren ==
    \/ Loop
    \/ AdvanceBetweenPasses(SirenSteps, MaxSirenNow)
    \/ LinkUp
    \/ Arrive(SirenBatches, MaxArrivals)

SpecSiren == Init /\ [][NextSiren]_vars

-----------------------------------------------------------------------------
(* SpecFrame: datagrams that are not frames, frames the dispatcher refuses, *)
(* a command that repeats the id of another, and frames around the size of  *)
(* the receive buffer                                                       *)

\* five bytes; a wrong magic; a wrong version; no byte at all
Unframeable ==
    << <<MAGIC, VER, 5, 1, 2>>,
       <<MAGIC - 1, VER, 5, 1, 2, 0>>,
       <<MAGIC, VER + 1, 5, 1, 2, 0>>,
       <<>> >>

\* an unknown code, siren payloads the dispatcher refuses, mode entry with a
\* payload.  Consecutive ids differ
Refused ==
    << Frame(0, IdC, <<>>),
       Frame(CMD_SIREN, IdB, <<>>),
       Frame(CMD_SIREN, IdC, <<4>> \o SirenTwoPhases),
       Frame(CMD_SIREN, IdB, <<2, 200, 0, 100, 0>>),
       Frame(CMD_OTA_MODE, IdC, <<7>>),
       Frame(CMD_SIREN, IdB, <<0>>) >>

\* a siren command followed by n bytes the dispatcher does not read
SirenPadded(id, n) == Frame(CMD_SIREN, id, SirenOnePhase \o [k \in 1..n |-> 0])

\* frames of exactly BUF_SIZE bytes and of one byte more
AtBufferSize ==
    << SirenPadded(IdB, BUF_SIZE - HEADER_LEN - Len(SirenOnePhase)),
       SirenPadded(IdC, BUF_SIZE - HEADER_LEN - Len(SirenOnePhase) + 1) >>

FrameBatches ==
    { <<Frame(5, IdA, <<>>)>>,
      <<Frame(CMD_SIREN, IdA, SirenOnePhase)>>,
      <<Frame(CMD_OTA_MODE, IdA, <<>>)>>,
      Unframeable,
      Refused,
      AtBufferSize }

FrameSteps == {600}

NextFrame == NextOf(FrameBatches, MaxArrivals, FrameSteps)

SpecFrame == Init /\ [][NextFrame]_vars

-----------------------------------------------------------------------------
(* SpecWindow: the service window is entered and millis() runs past its     *)
(* deadline while the link comes and goes and a press is sent               *)

WindowBatches ==
    { <<Frame(CMD_OTA_MODE, IdA, <<>>)>>,
      <<Frame(5, IdB, <<>>)>> }

\* millis() advances by half a window
WindowSteps == {OTA_WINDOW_MS \div 2}

AdvanceWindow(steps, horizon) ==
    /\ \E d \in steps : now + d <= horizon /\ now' = now + d
    /\ UNCHANGED <<wifi, inbox, pc, prog, arrivals>>

NextWindow ==
    \/ Loop
    \/ AdvanceWindow(WindowSteps, MaxWindowNow)
    \/ LinkChange
    \/ Arrive(WindowBatches, MaxArrivals)

SpecWindow == Init /\ [][NextWindow]_vars

-----------------------------------------------------------------------------
(* SpecWrap: bursts of presses with a macro among them, each sent to an      *)
(* idle firmware, so that the second burst is queued across the end of the  *)
(* buffer                                                                   *)

\* presses of the indices 0..n-1, no id repeating the one before
PressRun(n) == [k \in 1..n |-> Frame(k, IF k % 2 = 1 THEN IdA ELSE IdB, <<>>)]

WrapBatches ==
    { PressRun(14) \o <<Frame(CMD_MODE_SWITCH, IdC, <<>>), Frame(7, IdA, <<>>)>>,
      <<Frame(CMD_RESET_SCOREBOARD, IdC, <<>>)>> \o PressRun(12) }

WrapSteps == {500}

\* millis() moves on when the executor waits for a deadline
AdvancePastDelay(steps, horizon) ==
    /\ pc = "statusLedTick"
    /\ now < delayUntilMs
    /\ AdvanceWindow(steps, horizon)

NextWrap ==
    \/ Loop
    \/ AdvancePastDelay(WrapSteps, MaxWrapNow)
    \/ LinkChange
    \/ ArriveBurst(WrapBatches, MaxArrivals)

SpecWrap == Init /\ [][NextWrap]_vars

-----------------------------------------------------------------------------
(* SpecDrain: a macro, a press and a mode entry, the link coming and going, *)
(* with loop() running for ever and millis() moving past every deadline the *)
(* executor waits for                                                       *)

DrainBatches ==
    { <<Frame(CMD_MODE_SWITCH, IdA, <<>>)>>,
      <<Frame(5, IdB, <<>>)>>,
      <<Frame(CMD_MODE_SWITCH, IdA, <<>>), Frame(CMD_OTA_MODE, IdC, <<>>)>>,
      <<Frame(5, IdB, <<>>), Frame(CMD_OTA_MODE, IdC, <<>>)>> }

DrainSteps == {500}

\* millis() advances up to the horizon, and beyond it whenever the executor
\* waits for a deadline
AdvanceDrain(steps) ==
    /\ \E d \in steps :
           /\ now + d <= MaxDrainNow \/ now < delayUntilMs
           /\ now' = now + d
    /\ UNCHANGED <<wifi, inbox, pc, prog, arrivals>>

\* time does not stop while the executor waits
AdvanceWhileWaiting == now < delayUntilMs /\ AdvanceDrain(DrainSteps)

NextDrain ==
    \/ Loop
    \/ AdvanceDrain(DrainSteps)
    \/ LinkChange
    \/ Arrive(DrainBatches, MaxBursts)

\* a call of loop() moves on: Loop is the only action that changes pc, and
\* one of its ticks is enabled in every state
LoopMoves == pc' # pc

\* loop() is called again and again (weak fairness of Loop, which is always
\* enabled), and millis() advances
SpecDrain ==
    /\ Init /\ [][NextDrain]_vars
    /\ []<><<LoopMoves>>_vars
    /\ WF_vars(AdvanceWhileWaiting)

-----------------------------------------------------------------------------
(* SpecLed: a press, a macro whose presses fall into the burst of the one   *)
(* before, and a command that is refused, with the link coming and going    *)
(* and millis() advancing by the toggle period                              *)

LedBatches ==
    { <<Frame(5, IdA, <<>>)>>,
      <<Frame(CMD_MODE_SWITCH, IdB, <<>>)>>,
      <<Frame(0, IdC, <<>>)>> }

LedSteps == {ACTIVITY_BLINK_ON_MS}

NextLed ==
    \/ Loop
    \/ AdvanceBetweenPasses(LedSteps, MaxLedNow)
    \/ LinkChange
    \/ ArriveBurst(LedBatches, MaxBursts)

SpecLed == Init /\ [][NextLed]_vars

-----------------------------------------------------------------------------
(* What the claims observe *)

\* the acknowledgements and the RC5 codes emitted so far, in order
Acks == SelectSeq(out, LAMBDA e : e.kind = "ack")
Irs  == SelectSeq(out, LAMBDA e : e.kind = "ir")

\* the acknowledgement frames sent in answer to the i-th framed datagram
AcksOf(i) == SelectSeq(out, LAMBDA e : e.kind = "ack" /\ e.req = i)
\* the RC5 codes emitted for the i-th framed datagram
IrsOf(i) == SelectSeq(out, LAMBDA e : e.kind = "ir" /\ e.req = i)

\* the i-th framed datagram went to the dispatcher (enqueueCommand)
Dispatched(i) == rx[i].lenOk /\ ~rx[i].dup

\* the bytes of the datagram handled last, as udp.read returned them
LastBuf == udpRead(last.dgram)
\* it passed the checks on size, magic and version
LastFramed ==
    /\ last # <<>>
    /\ Len(LastBuf) >= HEADER_LEN
    /\ LastBuf[1] = MAGIC
    /\ LastBuf[2] = VER
LastCmd  == LastBuf[3]
LastId   == LastBuf[4] + LastBuf[5] * 256
LastPlen == LastBuf[6]
LastLenOk == Len(LastBuf) = HEADER_LEN + LastPlen
\* it is a new request: it went to the dispatcher
LastNew ==
    /\ LastFramed
    /\ LastLenOk
    /\ ~(last.pre.lastIdValid /\ last.pre.lastId = LastId)
\* the one acknowledgement sent for it carries this status
LastAcked(status) ==
    /\ Len(last.sent) = 1
    /\ last.sent[1].kind = "ack"
    /\ last.sent[1].data = <<MAGIC, VER, CMD_ACK, LastBuf[4], LastBuf[5], status, 0>>

\* the fields of the globals that make up the queue, the siren and the gate
QueueFields == {"q", "qHead", "qTail", "qCount", "delayUntilMs"}
SirenFields == {"sirenActive", "sirenCount", "sirenOnMs", "sirenOffMs",
                "sirenIndex", "sirenPhaseOn", "sirenNextMs", "sirenPin"}
GateFields  == {"otaEnabled", "otaInitialized", "otaUntilMs"}
DedupFields == {"lastId", "lastIdValid", "lastAckStatus"}
Same(fields) == \A f \in fields : last.post[f] = last.pre[f]

\* the toggle bit of a 12-bit RC5 code
ToggleBit(v) == (v \div RC5_TOGGLE_MASK_12BIT) % 2

-----------------------------------------------------------------------------
(* C1 *)

\* C1 as claimed: any two framed datagrams with the same request id are
\* answered with the same acknowledgement bytes, and the dispatcher runs for
\* at most one of them.
C1_AnyTwoSameId ==
    \A i, j \in DOMAIN rx :
        (i < j /\ rx[i].id = rx[j].id) =>
            /\ AcksOf(i) # <<>> /\ AcksOf(j) # <<>>
            /\ AcksOf(i)[1].data = AcksOf(j)[1].data
            /\ ~(Dispatched(i) /\ Dispatched(j))

\* C1 amended: when a framed datagram carries the request id of the framed
\* datagram handled directly before it, the dispatcher does not run for it,
\* and if its length is correct its acknowledgement is byte for byte the one
\* sent for the datagram before it.
C1_ConsecutiveSameId ==
    \A i \in DOMAIN rx :
        (i > 1 /\ rx[i].id = rx[i - 1].id) =>
            /\ ~Dispatched(i)
            /\ Len(AcksOf(i)) = 1 /\ Len(AcksOf(i - 1)) = 1
            /\ rx[i].lenOk => AcksOf(i)[1].data = AcksOf(i - 1)[1].data

\* an accepted press was sent again with the same id and answered, and its
\* press was transmitted
C1_Witness ==
    \E i \in DOMAIN rx :
        /\ i > 1 /\ rx[i].id = rx[i - 1].id /\ rx[i].lenOk
        /\ Dispatched(i - 1) /\ rx[i - 1].status = 1
        /\ Len(AcksOf(i)) = 1
        /\ Len(IrsOf(i - 1)) = 1

-----------------------------------------------------------------------------
(* C3 *)

\* C3: every RC5 code emitted for a request comes after the acknowledgement
\* of that request in the order of emission, and every action still in the
\* queue belongs to a request that has been acknowledged.
C3_AckBeforeExecution ==
    /\ \A j \in DOMAIN out :
           out[j].kind = "ir" =>
               \E i \in 1..(j - 1) : out[i].kind = "ack" /\ out[i].req = out[j].req
    /\ \A k \in 0..(qCount - 1) : AcksOf(qReq[(qHead + k) % QSIZE]) # <<>>

\* presses of a single-press request and of a macro were transmitted
C3_Witness ==
    /\ \E j \in DOMAIN out : out[j].kind = "ir" /\ rx[out[j].req].cmd = 5
    /\ \E j \in DOMAIN out : out[j].kind = "ir" /\ rx[out[j].req].cmd = CMD_MODE_SWITCH

-----------------------------------------------------------------------------
(* C6 *)

\* C6: a datagram with the magic and the version whose received length is not
\* 6 + its declared payload length is answered by one acknowledgement of
\* status 0, changes nothing of the queue, the siren, the gate and the toggle,
\* and leaves the dedup record (its id, valid, status 0).
C6_LengthMismatch ==
    (LastFramed /\ ~LastLenOk) =>
        /\ LastAcked(0)
        /\ Same(QueueFields \cup SirenFields \cup GateFields \cup {"rc5_toggle_state"})
        /\ last.post.lastId = LastId
        /\ last.post.lastIdValid
        /\ last.post.lastAckStatus = 0

\* a frame of the wrong length arrived with the id of an accepted request
C6_Witness ==
    /\ LastFramed /\ ~LastLenOk
    /\ last.pre.lastIdValid /\ last.pre.lastId = LastId
    /\ last.pre.lastAckStatus = 1

-----------------------------------------------------------------------------
(* C7 *)

\* C7: the k-th RC5 code transmitted since boot carries toggle bit k mod 2
\* (1 for the first, then alternating), whatever the index and the command
\* it came from, and rc5_toggle_state is the number of transmitted codes
\* mod 2, so that it changes only when a code is transmitted.
C7_ToggleAlternates ==
    /\ \A k \in DOMAIN Irs : ToggleBit(Irs[k].data[2]) = k % 2
    /\ rc5_toggle_state = Len(Irs) % 2

\* a press of index 4 and the presses of a macro (index 2) were transmitted
\* one after the other
C7_Witness ==
    /\ Len(Irs) >= 4
    /\ \E k \in DOMAIN Irs : k > 1 /\ Irs[k].data[1] # Irs[k - 1].data[1]
    /\ \E k \in DOMAIN Irs : rx[Irs[k].req].cmd = CMD_MODE_SWITCH

-----------------------------------------------------------------------------
(* C4 *)

\* C4: while the gate is open, a new request whose command is not
\* CMD_OTA_MODE is acknowledged with status 0 and changes nothing of the
\* queue, the siren and the gate (the deadline included).
C4_GateRejects ==
    (LastNew /\ last.pre.otaEnabled /\ LastCmd # CMD_OTA_MODE) =>
        /\ LastAcked(0)
        /\ Same(QueueFields \cup SirenFields \cup GateFields)

\* a siren command that would have been valid arrived while the gate was open
C4_Witness ==
    /\ LastNew /\ last.pre.otaEnabled
    /\ LastCmd = CMD_SIREN /\ LastPlen = 5

-----------------------------------------------------------------------------
(* C5 *)

\* C5 as claimed: every new CMD_OTA_MODE request is acknowledged with status
\* 1 and leaves the gate open with the deadline at now + OTA_WINDOW_MS.
C5_EveryModeEntry ==
    (LastNew /\ LastCmd = CMD_OTA_MODE) =>
        /\ LastAcked(1)
        /\ last.post.otaEnabled
        /\ last.post.otaUntilMs = last.at + OTA_WINDOW_MS

\* C5 amended: every new CMD_OTA_MODE request with an empty payload is
\* acknowledged with status 1, whether the gate was closed or open, and
\* leaves the gate open with the deadline at now + OTA_WINDOW_MS.
C5_ModeEntryEmptyPayload ==
    (LastNew /\ LastCmd = CMD_OTA_MODE /\ LastPlen = 0) =>
        /\ LastAcked(1)
        /\ last.post.otaEnabled
        /\ last.post.otaUntilMs = last.at + OTA_WINDOW_MS

\* the window was open and was extended at a later time
C5_Witness ==
    /\ LastNew /\ LastCmd = CMD_OTA_MODE /\ LastPlen = 0
    /\ last.pre.otaEnabled
    /\ last.post.otaUntilMs > last.pre.otaUntilMs

-----------------------------------------------------------------------------
(* C2 *)

\* the actions of the two macros, in the order of the source
ModeSwitchActions ==
    << Press(IDX_EXIT), Delay(IR_GAP_MS_DEFAULT), Press(IDX_EXIT),
       Delay(IR_GAP_MS_DEFAULT), Press(IDX_EXIT), Delay(IR_GAP_MS_EXIT3_END) >>
ResetActions ==
    << Press(IDX_9), Delay(IR_GAP_MS_DEFAULT), Press(IDX_8),
       Delay(IR_GAP_MS_DEFAULT), Press(IDX_8), Delay(IR_GAP_MS_DEFAULT),
       Press(IDX_8) >>

\* the datagram handled last appended exactly `seq` to the tail of the queue
Appended(seq) ==
    /\ last.post.qCount = last.pre.qCount + Len(seq)
    /\ last.post.qHead = last.pre.qHead
    /\ last.post.qTail = (last.pre.qTail + Len(seq)) % QSIZE
    /\ last.post.delayUntilMs = last.pre.delayUntilMs
    /\ \A i \in 0..(QSIZE - 1) :
           IF \E k \in 1..Len(seq) : i = (last.pre.qTail + k - 1) % QSIZE
           THEN \A k \in 1..Len(seq) :
                    i = (last.pre.qTail + k - 1) % QSIZE => last.post.q[i] = seq[k]
           ELSE last.post.q[i] = last.pre.q[i]

\* C2: a macro command handled by the dispatcher is either rejected with
\* status 0 and the queue unchanged, or accepted with status 1 and all the
\* actions of the macro appended, in order, to the tail of the queue.
C2_MacroAllOrNothing ==
    (LastNew /\ LastCmd \in {CMD_MODE_SWITCH, CMD_RESET_SCOREBOARD}) =>
        \/ LastAcked(0) /\ Same(QueueFields)
        \/ /\ LastAcked(1)
           /\ Appended(IF LastCmd = CMD_MODE_SWITCH THEN ModeSwitchActions
                       ELSE ResetActions)

-----------------------------------------------------------------------------
(* C10 *)

\* the command codes enqueueCommand knows
DefinedCodes ==
    (1..27) \cup {CMD_MODE_SWITCH, CMD_RESET_SCOREBOARD, CMD_SIREN, CMD_OTA_MODE}

\* the requests of the actions in the queue and the actions themselves,
\* oldest first
QueuedReq == [k \in 1..qCount |-> qReq[(qHead + k - 1) % QSIZE]]
QueuedAct == [k \in 1..qCount |-> q[(qHead + k - 1) % QSIZE]]

\* C10: with the gate closed a new command c in 0x01..0x1B is accepted and
\* appends the one action Press(c-1) to the tail, the toggle unchanged, when
\* the queue has a free slot, and is rejected with the queue unchanged when
\* the queue holds 32 actions; a code outside the defined commands is
\* rejected; an accepted press is either still in the queue or was
\* transmitted once, with index c-1, and the toggle has flipped once for
\* every transmitted code.
C10_SinglePress ==
    /\ (LastNew /\ ~last.pre.otaEnabled /\ LastCmd \in 1..27) =>
           IF last.pre.qCount < QSIZE
           THEN /\ LastAcked(1)
                /\ Appended(<<Press(LastCmd - 1)>>)
                /\ last.post.rc5_toggle_state = last.pre.rc5_toggle_state
           ELSE LastAcked(0) /\ Same(QueueFields)
    /\ (LastNew /\ LastCmd \notin DefinedCodes) =>
           LastAcked(0) /\ Same(QueueFields)
    /\ LET irs == Irs
           qr  == QueuedReq
           qa  == QueuedAct
           IsPress(r) == r \in DOMAIN rx /\ rx[r].cmd \in 1..27
           accepted == {r \in DOMAIN rx : Dispatched(r) /\ IsPress(r) /\ rx[r].status = 1}
           sentP   == {k \in DOMAIN irs : IsPress(irs[k].req)}
           queuedP == {k \in DOMAIN qr : IsPress(qr[k])}
       IN /\ {irs[k].req : k \in sentP} \cup {qr[k] : k \in queuedP} = accepted
          /\ Cardinality(sentP) + Cardinality(queuedP) = Cardinality(accepted)
          /\ \A k \in sentP : irs[k].data[1] = rx[irs[k].req].cmd - 1
          /\ \A k \in queuedP : qa[k] = Press(rx[qr[k]].cmd - 1)
    /\ rc5_toggle_state = Len(Irs) % 2

\* a press was rejected by a full queue, and the 32 presses before it were
\* transmitted
C10_Witness ==
    /\ LastNew /\ LastCmd = 5 /\ last.pre.qCount = QSIZE /\ LastAcked(0)
    /\ Len(Irs) = QSIZE


\* C9: an admitted mode-switch macro (0x40) appends exactly Press(2),
\* Delay(100), Press(2), Delay(100), Press(2), Delay(500) in that order; when
\* executed it yields exactly three presses of the exit index, consecutive
\* presses at least 100 ms apart, and nothing is transmitted for at least
\* 500 ms after the third press.
C9_ModeSwitchMacro ==
    /\ (LastNew /\ ~last.pre.otaEnabled /\ LastCmd = CMD_MODE_SWITCH /\ LastAcked(1)) =>
           Appended(ModeSwitchActions)
    /\ LET irs == Irs
           qr  == QueuedReq
           qa  == QueuedAct
           IsMacro(r) == r \in DOMAIN rx /\ Dispatched(r)
                             /\ rx[r].cmd = CMD_MODE_SWITCH /\ rx[r].status = 1
           Nth(k) == Cardinality({j \in 1..k : irs[j].req = irs[k].req})
       IN /\ \A r \in DOMAIN rx : IsMacro(r) =>
                 Cardinality({k \in DOMAIN irs : irs[k].req = r})
                   + Cardinality({k \in DOMAIN qr : qr[k] = r /\ qa[k].type = "Press"}) = 3
          /\ \A k \in DOMAIN irs : IsMacro(irs[k].req) =>
                 /\ irs[k].data[1] = IDX_EXIT
                 /\ Nth(k) <= 3
                 /\ k < Len(irs) =>
                        irs[k + 1].at - irs[k].at >=
                            (IF Nth(k) = 3 THEN IR_GAP_MS_EXIT3_END
                                           ELSE IR_GAP_MS_DEFAULT)
                 /\ (k < Len(irs) /\ Nth(k) < 3) => irs[k + 1].req = irs[k].req

\* the three presses of a macro went out and a later press followed them
C9_Witness ==
    LET irs == Irs
    IN /\ Len(irs) = 4
       /\ rx[irs[1].req].cmd = CMD_MODE_SWITCH
       /\ irs[3].req = irs[1].req
       /\ irs[4].req # irs[1].req
       /\ irs[2].at - irs[1].at < 2 * IR_GAP_MS_DEFAULT

-----------------------------------------------------------------------------
(* C8 *)

\* the datagram handled last is a new siren command the dispatcher accepts:
\* gate closed, count in 1..3, at least 1 + 4 * count payload bytes
LastSirenCount == LastBuf[HEADER_LEN + 1]
LastSirenValid ==
    /\ LastNew /\ ~last.pre.otaEnabled /\ LastCmd = CMD_SIREN
    /\ LastPlen >= 1
    /\ LastSirenCount \in 1..SIREN_MAX_COUNT
    /\ LastPlen >= 1 + 4 * LastSirenCount
\* its on and off durations of phase i, little-endian 16-bit
LastSirenOn(i)  == LastBuf[HEADER_LEN + 2 + 4 * i] + 256 * LastBuf[HEADER_LEN + 3 + 4 * i]
LastSirenOff(i) == LastBuf[HEADER_LEN + 4 + 4 * i] + 256 * LastBuf[HEADER_LEN + 5 + 4 * i]

sirenState ==
    <<sirenActive, sirenCount, sirenOnMs, sirenOffMs, sirenIndex, sirenPhaseOn,
      sirenNextMs, sirenPin>>

\* the output is active exactly in the ON phase of a running train
C8_OutputFollowsPhase ==
    /\ sirenPin = (sirenActive /\ sirenPhaseOn)
    /\ sirenActive => sirenCount \in 1..SIREN_MAX_COUNT /\ sirenIndex < sirenCount

\* a step of the program, seen from the siren engine
C8_SirenStep ==
    LET handled == /\ pc \in {"processUdp", "parsePacket"} /\ pc' = "parsePacket"
                   /\ Len(inbox') < Len(inbox)
        started == handled /\ LastSirenValid'
    IN /\ started =>
              /\ LastAcked(1)'
              /\ sirenActive' /\ sirenPin' /\ sirenPhaseOn' /\ sirenIndex' = 0
              /\ sirenCount' = LastSirenCount'
              /\ \A i \in 0..(LastSirenCount' - 1) :
                     /\ sirenOnMs'[i] = LastSirenOn(i)'
                     /\ sirenOffMs'[i] = LastSirenOff(i)'
              /\ sirenNextMs' = now + LastSirenOn(0)'
       /\ (handled /\ (LastNew /\ LastCmd = CMD_SIREN)' /\ ~LastSirenValid') =>
              LastAcked(0)'
       /\ (~started /\ sirenState' # sirenState) =>
              /\ pc = "sirenTick"
              /\ sirenActive
              /\ now >= sirenNextMs
              /\ sirenOnMs' = sirenOnMs /\ sirenOffMs' = sirenOffMs
              /\ IF sirenPhaseOn
                 THEN /\ sirenActive' /\ ~sirenPin' /\ ~sirenPhaseOn'
                      /\ sirenIndex' = sirenIndex /\ sirenCount' = sirenCount
                      /\ sirenNextMs' = now + sirenOffMs[sirenIndex]
                 ELSE IF sirenIndex + 1 < sirenCount
                 THEN /\ sirenActive' /\ sirenPin' /\ sirenPhaseOn'
                      /\ sirenIndex' = sirenIndex + 1 /\ sirenCount' = sirenCount
                      /\ sirenNextMs' = now + sirenOnMs[sirenIndex + 1]
                 ELSE ~sirenActive' /\ ~sirenPin' /\ ~sirenPhaseOn'
       /\ (pc = "sirenTick" /\ pc' # pc /\ sirenActive /\ now >= sirenNextMs) =>
              sirenState' # sirenState

\* C8: a valid siren command with count n in 1..3 starts the train at phase 0,
\* output active, with the durations of its payload, whatever the engine was
\* doing; from then on the output changes only in sirenTick and only at or
\* after the stored deadline, going ON, OFF through the phases 0..n-1 in
\* order, each deadline being the time of the transition plus the duration of
\* the phase entered; at the first tick at or after the last OFF deadline the
\* engine stops, and a stopped engine keeps the output inactive until the next
\* valid siren command.
C8_SirenPulseTrain == []C8_OutputFollowsPhase /\ [][C8_SirenStep]_vars

\* a one-phase command restarted the engine while the two-phase train was in
\* its second phase, and the restarted train has run to its end
C8_Witness ==
    /\ last # <<>> /\ LastSirenValid /\ LastSirenCount = 1
    /\ last.pre.sirenActive /\ last.pre.sirenIndex = 1
    /\ last.pre.sirenOnMs[1] = 300
    /\ ~sirenActive /\ ~sirenPin

-----------------------------------------------------------------------------
(* C11, C12, C18, C19 *)

\* the bytes udp.read returns are not a frame
NotAFrame(buf) == Len(buf) < 6 \/ buf[1] # 165 \/ buf[2] # 1

\* a pass of the while loop of processUdp took a datagram from the socket
Consumed ==
    /\ pc \in {"processUdp", "parsePacket"}
    /\ Len(inbox') < Len(inbox)

C11_Step ==
    (Consumed /\ NotAFrame(udpRead(Head(inbox)))) =>
        /\ out' = out
        /\ UNCHANGED <<lastId, lastIdValid, lastAckStatus>>
        /\ UNCHANGED <<q, qHead, qTail, qCount, delayUntilMs>>
        /\ UNCHANGED sirenState
        /\ UNCHANGED <<otaEnabled, otaInitialized, otaUntilMs>>
        /\ UNCHANGED rc5_toggle_state

\* C11: a datagram of fewer than 6 bytes, or whose first byte is not 0xA5, or
\* whose second byte is not 0x01, is taken from the socket without an
\* acknowledgement and without a change of the dedup record, the queue, the
\* siren, the gate or the toggle bit.
C11_UnframeableDropped == [][C11_Step]_vars

\* a datagram with a wrong version byte was dropped while a press was queued
\* and a dedup record was stored
C11_Witness ==
    /\ last # <<>> /\ ~last.framed
    /\ Len(last.dgram) >= HEADER_LEN /\ last.dgram[1] = MAGIC
    /\ last.pre.lastIdValid /\ last.pre.qCount > 0
    /\ last.sent = <<>>

\* C12: a length-correct frame whose id equals the stored id while the record
\* is valid is answered with the stored status and changes nothing of the
\* queue, the siren, the gate, the toggle bit and the dedup record, whatever
\* its command code and payload.
C12_DedupHit ==
    (LastFramed /\ LastLenOk /\ last.pre.lastIdValid /\ last.pre.lastId = LastId) =>
        /\ LastAcked(last.pre.lastAckStatus)
        /\ Same(QueueFields \cup SirenFields \cup GateFields \cup DedupFields
                  \cup {"rc5_toggle_state"})
        /\ rx[Len(rx)].dup

\* a siren command repeated the id of a press: both dispatch statuses occur
C12_Witness ==
    /\ LastFramed /\ LastLenOk /\ last.pre.lastIdValid /\ last.pre.lastId = LastId
    /\ LastCmd = CMD_SIREN
    /\ Len(rx) >= 2 /\ rx[Len(rx) - 1].cmd = 5 /\ rx[Len(rx) - 1].status = 1
    /\ ~sirenActive

\* the command of the datagram handled last is one the dispatcher refuses
\* whatever the state
LastInvalid ==
    \/ LastCmd \notin DefinedCodes
    \/ /\ LastCmd = CMD_SIREN
       /\ ~(/\ LastPlen >= 1
            /\ LastSirenCount \in 1..SIREN_MAX_COUNT
            /\ LastPlen >= 1 + 4 * LastSirenCount)
    \/ LastCmd = CMD_OTA_MODE /\ LastPlen # 0

\* C18: a new length-correct frame with an unknown code, a siren payload that
\* is empty, has a count outside 1..3 or is shorter than 1 + 4 * count, or a
\* mode entry with a payload, is acknowledged with status 0, leaves the
\* queue, the siren, the gate and the toggle bit as they were, and the dedup
\* record becomes (its id, valid, 0).
C18_InvalidRejected ==
    (LastNew /\ LastInvalid) =>
        /\ LastAcked(0)
        /\ Same(QueueFields \cup SirenFields \cup GateFields \cup {"rc5_toggle_state"})
        /\ last.post.lastId = LastId
        /\ last.post.lastIdValid
        /\ last.post.lastAckStatus = 0

\* a siren command with count 4 was refused while a train was running
C18_Witness ==
    /\ LastNew /\ LastInvalid /\ LastCmd = CMD_SIREN
    /\ LastPlen >= 1 /\ LastSirenCount = 4
    /\ last.pre.sirenActive /\ last.pre.sirenPin
    /\ last.pre.lastId # LastId

\* C19: a datagram with the magic and the version whose length is exactly
\* 6 + its declared payload length passes the length check, for every
\* declared length 0..255.
C19_ExactLengthAccepted ==
    (/\ last # <<>>
     /\ Len(last.dgram) >= HEADER_LEN
     /\ last.dgram[1] = MAGIC /\ last.dgram[2] = VER
     /\ Len(last.dgram) = HEADER_LEN + last.dgram[6]) =>
        /\ last.framed
        /\ rx[Len(rx)].lenOk

-----------------------------------------------------------------------------
(* C13 *)

\* the call of otaTick in a pass of loop()
OtaTickCall == pc = "otaTick" /\ pc' = "actionTick"

C13_Step == (OtaTickCall /\ otaEnabled /\ now >= otaUntilMs) => ~otaEnabled'

\* C13: at every pass of loop() in which the gate is open and millis() has
\* reached the deadline, otaTick closes the gate, whether or not the link is
\* connected.
C13_GateAutoClose == [][C13_Step]_vars

-----------------------------------------------------------------------------
(* C14 *)

\* the call of actionTick in a pass of loop()
ActionTickCall == pc = "actionTick" /\ pc' = "sirenTick"

C14_Step ==
    LET pending == delayUntilMs # 0 /\ now < delayUntilMs
    IN /\ ActionTickCall =>
              /\ qCount' \in {qCount, qCount - 1}
              /\ Len(out') <= Len(out) + 1
       /\ ~ActionTickCall => qCount' >= qCount
       /\ (ActionTickCall /\ pending) =>
              /\ UNCHANGED <<q, qHead, qTail, qCount, delayUntilMs>>
              /\ out' = out
       /\ (ActionTickCall /\ ~pending /\ qCount > 0 /\ q[qHead].type = "Delay") =>
              /\ qCount' = qCount - 1
              /\ qHead' = (qHead + 1) % QSIZE
              /\ delayUntilMs' = now + q[qHead].arg
              /\ out' = out

\* C14: a call of actionTick removes at most one action and nothing else
\* removes any; while a delay deadline is pending the call changes nothing of
\* the queue and transmits nothing; dequeuing Delay(d) at time t sets the
\* deadline to t + d and transmits nothing, so that nothing is dequeued
\* before t + d.
C14_ExecutorStep == [][C14_Step]_vars

\* actionTick has just returned with the closing delay of a macro pending
\* for at least one pass already and a press waiting behind it
C14_Witness ==
    /\ pc = "sirenTick"
    /\ delayUntilMs - now \in 1..(IR_GAP_MS_EXIT3_END - 1)
    /\ qCount > 0
    /\ Len(Irs) = 3

-----------------------------------------------------------------------------
(* C15 *)

\* the actions the dispatcher appends for an accepted command
ExpectedActions(cmd) ==
    IF cmd \in 1..27 THEN <<Press(cmd - 1)>>
    ELSE IF cmd = CMD_MODE_SWITCH THEN ModeSwitchActions
    ELSE IF cmd = CMD_RESET_SCOREBOARD THEN ResetActions
    ELSE <<>>

IsPressAction(a) == a.type = "Press"

\* C15: the queue indices stay consistent (0 <= qCount <= 32, tail = head +
\* count mod 32); the requests of the codes transmitted so far followed by
\* the requests of the queued actions are in dispatch order, so no action of
\* another command lies between two actions of one macro; and for every
\* accepted command the presses transmitted for it followed by the presses
\* still queued for it are exactly the presses of its sequence, the queued
\* actions being the rest of that sequence: nothing is reordered,
\* overwritten, lost or duplicated, across the wrap-around included.
C15_Fifo ==
    LET irs   == Irs
        qr    == QueuedReq
        qa    == QueuedAct
        order == [k \in 1..Len(irs) |-> irs[k].req] \o qr
    IN /\ qCount \in 0..QSIZE
       /\ qHead \in 0..(QSIZE - 1)
       /\ qTail = (qHead + qCount) % QSIZE
       /\ \A k \in 1..(Len(order) - 1) : order[k] <= order[k + 1]
       /\ \A r \in DOMAIN rx :
              (Dispatched(r) /\ rx[r].status = 1) =>
                  LET exp    == ExpectedActions(rx[r].cmd)
                      sentR  == SelectSeq(irs, LAMBDA e : e.req = r)
                      sent   == [k \in 1..Len(sentR) |-> Press(sentR[k].data[1])]
                      slots  == {k \in 1..qCount : qr[k] = r}
                      first  == IF slots = {} THEN 1
                                ELSE CHOOSE k \in slots : \A j \in slots : k <= j
                      queued == [k \in 1..Cardinality(slots) |-> qa[first + k - 1]]
                  IN /\ sent \o SelectSeq(queued, IsPressAction)
                          = SelectSeq(exp, IsPressAction)
                     /\ Len(queued) <= Len(exp)
                     /\ queued = SubSeq(exp, Len(exp) - Len(queued) + 1, Len(exp))

\* the second burst is queued on both sides of slot 0, after the first was
\* transmitted, with a delay of a macro among the queued actions
C15_Witness ==
    /\ qCount > 0 /\ qTail < qHead
    /\ Len(Irs) > 20
    /\ \E r \in DOMAIN rx : rx[r].cmd = CMD_MODE_SWITCH /\ rx[r].status = 1
    /\ \E k \in 1..qCount : QueuedAct[k].type = "Delay"

-----------------------------------------------------------------------------
(* C16 *)

\* C16: a reset macro (0x41) acknowledged with status 1 has queued Press(24),
\* Delay(100), Press(23), Delay(100), Press(23), Delay(100), Press(23), at
\* every queue occupancy at which it is admitted.
C16_ResetMacroComplete ==
    (LastNew /\ LastCmd = CMD_RESET_SCOREBOARD /\ LastAcked(1)) =>
        /\ last.post.qCount = last.pre.qCount + Len(ResetActions)
        /\ \A k \in 1..Len(ResetActions) :
               last.post.q[(last.pre.qTail + k - 1) % QSIZE] = ResetActions[k]

-----------------------------------------------------------------------------
(* C17 *)

C17_Step ==
    \* a change of the link leaves the queue and the emissions alone
    /\ wifi' # wifi => UNCHANGED <<q, qHead, qTail, qCount, delayUntilMs, out>>
    \* opening the gate removes and reorders nothing
    /\ (~otaEnabled /\ otaEnabled') => UNCHANGED <<q, qHead, qTail, qCount, delayUntilMs>>
    \* a pass that finds the link down does not call processUdp
    /\ (pc = "processUdp" /\ pc' # pc /\ ~wifi) =>
           /\ inbox' = inbox /\ out' = out
           /\ UNCHANGED <<lastId, lastIdValid, lastAckStatus>>
    \* a dequeued press is transmitted in the same call
    /\ (ActionTickCall /\ qCount' < qCount /\ q[qHead].type = "Press") =>
           /\ Len(out') = Len(out) + 1
           /\ out'[Len(out')].kind = "ir"
           /\ out'[Len(out')].data[1] = q[qHead].arg

-----------------------------------------------------------------------------
(* C20 *)

ledState == <<ledInBurst, ledLevel, ledNextMs, ledTogglesLeft>>

\* the call of statusLedTick in a pass of loop()
StatusLedTickCall == pc = "statusLedTick" /\ pc' = "wifiTick"

\* this step accepts a new command or transmits a code
BurstTrigger ==
    \/ Consumed /\ LastNew' /\ LastAcked(1)'
    \/ Len(out') > Len(out) /\ out'[Len(out')].kind = "ir"

C20_Step ==
    /\ BurstTrigger =>
           /\ ledInBurst' /\ ~ledLevel'
           /\ ledTogglesLeft' = 2 * ACTIVITY_BLINK_COUNT
           /\ ledNextMs' = now + ACTIVITY_BLINK_OFF_MS
    /\ (~BurstTrigger /\ ledState' # ledState) => StatusLedTickCall
    /\ (StatusLedTickCall /\ ~ledInBurst) => ~ledInBurst' /\ ledLevel' = wifi
    /\ (StatusLedTickCall /\ ledInBurst /\ now < ledNextMs) => ledState' = ledState
    /\ (StatusLedTickCall /\ ledInBurst /\ now >= ledNextMs) =>
           /\ ledTogglesLeft' = ledTogglesLeft - 1
           /\ IF ledTogglesLeft' = 0
              THEN ~ledInBurst' /\ ledLevel' = wifi
              ELSE /\ ledInBurst' /\ ledLevel' = ~ledLevel
                   /\ ledNextMs' = now + (IF ledLevel' THEN ACTIVITY_BLINK_ON_MS
                                                       ELSE ACTIVITY_BLINK_OFF_MS)

\* a burst has between 1 and 8 toggles left
C20_BurstCount == ledInBurst => ledTogglesLeft \in 1..(2 * ACTIVITY_BLINK_COUNT)

\* a burst that is running is not started again
C20_NoRestart == (ledInBurst /\ ledInBurst') => ledTogglesLeft' <= ledTogglesLeft

\* C20 as stated: every burst started by an accepted command or a
\* transmitted code runs its 8 toggles to completion.
C20_EveryBurstCompletes == []C20_BurstCount /\ [][C20_Step /\ C20_NoRestart]_vars

\* C20: outside a burst every call of statusLedTick leaves the level equal to
\* the link state; an accepted command or a transmitted code starts a burst
\* with the level off and 8 toggles to go, also when a burst is running, in
\* which case the count starts again at 8; in a burst only statusLedTick
\* changes the indicator, never before the deadline, each time taking one
\* toggle off the count and inverting the level whatever the link state; the
\* 8th toggle ends the burst and sets the level to the link state.
C20_StatusIndicator == []C20_BurstCount /\ [][C20_Step]_vars

\* the burst of a press has run through its 8 toggles and ended with the
\* link down
C20_Witness ==
    /\ pc = "wifiTick"
    /\ ~ledInBurst /\ ledTogglesLeft = 0
    /\ Len(Irs) = 1
    /\ now - Irs[1].at >= 2 * ACTIVITY_BLINK_COUNT * ACTIVITY_BLINK_ON_MS
    /\ ~wifi /\ ~ledLevel

====
